---- MODULE Spec2Model ----
(***************************************************************************)
(* Model of the memory and list discipline of the CUSUM utility layer      *)
(* (poriscope/cdlls/wavelet/src/utils.c, lib/utils.h).                     *)
(*                                                                         *)
(* The C heap is modelled by block identifiers 1, 2, 3, ... handed out in  *)
(* allocation order and never reused, so that a second free of a block and *)
(* a block that is never freed are both visible in the state.  The NULL    *)
(* pointer is 0.                                                           *)
(***************************************************************************)
EXTENDS Integers, Sequences, FiniteSets, TLC

\* ------------------------------------------------------------------ bounds
MaxEdges == 3
MaxLocation == 2
MaxReadLength == 2
MaxHalfOrder == 1
MaxFilterPadding == 1
MaxArrays == 2
MaxFiles == 3
MaxNum == 2
MaxCalls == 2
MaxEvents == 2
MaxSub == 2
MaxDurations == 3
MaxLevels == 3

\* ------------------------------------------------- constants of utils.h
HEAD == -1000
ERR_BITS == 1
ERR_MEM == 2
ERR_FILE == 3
ERR_DATA == 4
ERR_STRING == 5
CHIMERA == 0
BINARY == 1
IGOROPT == 2

NULL == 0

ErrorCodes == {ERR_BITS, ERR_MEM, ERR_FILE, ERR_DATA, ERR_STRING}

VARIABLES
    errorcode,   \* int errorcode (utils.c:2)
    nblocks,     \* number of blocks calloc has handed out so far
    allocated,   \* blocks currently allocated
    freecount,   \* block -> number of times free() was applied to it
    blocknum,    \* block -> number of elements requested from calloc
    edge,        \* block -> struct Edge contents
    ehead,       \* the caller's head pointer of the edge list
    ecur,        \* the caller's current pointer (last value returned)
    elog,        \* the edges appended by successful add_edge calls
    estate,      \* "none" | "live" | "initfailed" | "addfailed" | "freed"
    sigs,        \* block -> struct Signal_Struct contents
    sig,         \* the pointer initialize_signal returned
    scfg,        \* the arguments of the initialize_signal call
    soks,        \* outcome of each calloc the call made, in order
    sstate,      \* "none" | "ok" | "failed"
    file,        \* block -> struct Input_File contents
    daq,         \* block -> struct Chimera contents
    fhead,       \* the caller's head pointer of the input file list
    fcur,        \* the caller's current pointer (last value returned)
    fdatatype,   \* the datatype the program was configured with
    fbincfg,     \* the binary decoder configuration (*bincfg)
    flog,        \* the registrations for which add_input_file returned a node
    fsettings,   \* the lines of the settings file of the latest of them
    nhandles,    \* number of FILE handles fopen64 has handed out so far
    openhandles, \* FILE handles currently open
    fstate,      \* "none" | "live" | "initfailed" | "addfailed" | "freed"
                 \* | "crashed"
    calls,       \* the direct calls of calloc_and_check / fopen64_and_check
    event,       \* block -> struct Event contents
    level,       \* block -> struct Cusumlevel contents
    ev,          \* the caller's event pointer
    evlog,       \* the arguments of the add_event calls made on ev
    evpre,       \* *ev as it was when free_single_event was last entered
    evfreed,     \* the blocks the last free_single_event passed to free()
    kind,        \* block -> the event field it was attached through
    evstate,     \* "none" | "initfailed" | "live" | "added" | "populated"
                 \* | "disposed"
    dur,         \* block -> struct Duration_Struct contents
    dhead,       \* the caller's head pointer of the duration list
    dcur,        \* the caller's current pointer (last value returned)
    dlog,        \* the durations appended by successful add_duration calls
    dstate,      \* "none" | "live" | "initfailed" | "addfailed" | "freed"
    base,        \* block -> struct Baseline_struct contents
    centers,     \* block -> contents of a double array (baseline->current)
    bptr,        \* the pointer initialize_baseline returned
    bcfg,        \* the configuration of the initialize_baseline call
    bstate,      \* "none" | "ok" | "failed" | "freed"
    lhead,       \* the caller's head pointer of the level list
    lcur,        \* the caller's current pointer (last value returned)
    llog,        \* the levels appended by add_cusum_level calls that returned
                 \* a node
    lnull,       \* a store through a NULL pointer was executed
    lstate       \* "none" | "live" | "initfailed" | "addfailed" | "freed"
                 \* | "crashed"

heapvars == <<nblocks, allocated, freecount, blocknum>>
edgevars == <<edge, ehead, ecur, elog, estate>>
sigvars == <<sigs, sig, scfg, soks, sstate>>
filevars == <<file, daq, fhead, fcur, fdatatype, fbincfg, flog, fsettings,
              nhandles, openhandles, fstate>>
callvars == <<calls>>
eventvars == <<event, level, ev, evlog, evpre, evfreed, kind, evstate>>
durvars == <<dur, dhead, dcur, dlog, dstate>>
basevars == <<base, centers, bptr, bcfg, bstate>>
levelvars == <<lhead, lcur, llog, lnull, lstate>>

\* ------------------------------------------------------- checked allocation
\* calloc_and_check: the pointer returned on the heap h when the underlying
\* calloc succeeds (ok) or returns NULL.
calloc_and_check(h, ok) == IF ok THEN h[1] + 1 ELSE NULL

\* a calloc_and_check that clears errorcode when calloc succeeds
calloc_errorcode_cleared(ok, ec) == IF ok THEN 0 ELSE ERR_MEM

\* calloc_and_check calls fatal(ERR_MEM) exactly when calloc returned NULL.
calloc_errorcode(ok, ec) == IF ok THEN ec ELSE ERR_MEM

\* free(p) for every p of the set S (free(NULL) is a no-op)
FreeAll(fc, S) == [b \in DOMAIN fc |-> IF b \in S THEN fc[b] + 1 ELSE fc[b]]

\* the heap <<nblocks, allocated, freecount, blocknum>> after calloc(num, size)
\* on the heap h
HeapAfterCalloc(h, ok, num) ==
    IF ok THEN <<h[1] + 1, h[2] \cup {h[1] + 1},
                 h[3] @@ ((h[1] + 1) :> 0), h[4] @@ ((h[1] + 1) :> num)>>
          ELSE h

\* the heap after free(p) for every block p of S
HeapAfterFree(h, S) == <<h[1], h[2] \ S, FreeAll(h[3], S), h[4]>>

SetHeap(h) ==
    /\ nblocks' = h[1] /\ allocated' = h[2]
    /\ freecount' = h[3] /\ blocknum' = h[4]

\* ------------------------------------------------------------- edge lists
ZeroEdge == [location |-> 0, type |-> 0, local_stdev |-> 0,
             local_baseline |-> 0, next |-> NULL]

EdgeLocations == 1..MaxLocation
EdgeTypes == {0, 1, HEAD}
EdgeStdevs == {1}
EdgeBaselines == {2}

\* count_edges: number of nodes reached from current_edge
RECURSIVE count_edges(_)
count_edges(current_edge) ==
    IF current_edge = NULL THEN 0
    ELSE 1 + count_edges(edge[current_edge].next)

\* the nodes reached from p, in order
RECURSIVE EdgeChain(_)
EdgeChain(p) ==
    IF p = NULL THEN <<>> ELSE <<p>> \o EdgeChain(edge[p].next)

EdgeFields(p) == [location |-> edge[p].location, type |-> edge[p].type,
                  local_stdev |-> edge[p].local_stdev,
                  local_baseline |-> edge[p].local_baseline]

EdgeTraverse(p) == [i \in 1..Len(EdgeChain(p)) |-> EdgeFields(EdgeChain(p)[i])]

Range(s) == {s[i] : i \in 1..Len(s)}

initialize_edges ==
    /\ estate = "none"
    /\ \E ok \in BOOLEAN :
         LET head == calloc_and_check(heapvars, ok)
             ec   == calloc_errorcode(ok, errorcode)
         IN /\ errorcode' = ec
            /\ SetHeap(HeapAfterCalloc(heapvars, ok, 1))
            /\ IF ec # 0
               THEN /\ edge' = IF ok THEN edge @@ (head :> ZeroEdge) ELSE edge
                    /\ ehead' = NULL /\ ecur' = NULL
                    /\ estate' = "initfailed"
               ELSE /\ edge' = edge @@ (head :> [ZeroEdge EXCEPT !.type = HEAD])
                    /\ ehead' = head /\ ecur' = head
                    /\ estate' = "live"
    /\ UNCHANGED elog

\* a test that takes every non-positive type for the unfilled marker
EdgeIsUnfilled_nonpositive(type) == type <= 0

\* the test of add_edge that decides between filling the node and growing
EdgeIsUnfilled(type) == type = HEAD

add_edge(location, type, stdev, baseline) ==
    /\ estate = "live"
    /\ ecur # NULL
    /\ Len(elog) < MaxEdges
    /\ LET new == [location |-> location, type |-> type,
                   local_stdev |-> stdev, local_baseline |-> baseline]
       IN IF EdgeIsUnfilled(edge[ecur].type)
          THEN /\ edge' = [edge EXCEPT ![ecur] = new @@ [next |-> @.next]]
               /\ elog' = Append(elog, new)
               /\ UNCHANGED <<errorcode, heapvars, ehead, ecur, estate>>
          ELSE \E ok \in BOOLEAN :
               LET nxt == calloc_and_check(heapvars, ok)
                   ec  == calloc_errorcode(ok, errorcode)
                   e1  == [edge EXCEPT ![ecur].next = nxt]
                   e2  == IF ok THEN e1 @@ (nxt :> ZeroEdge) ELSE e1
               IN /\ errorcode' = ec
                  /\ SetHeap(HeapAfterCalloc(heapvars, ok, 1))
                  /\ ehead' = ehead
                  /\ IF ec # 0
                     THEN /\ edge' = e2
                          /\ ecur' = NULL
                          /\ estate' = "addfailed"
                          /\ elog' = elog
                     ELSE /\ edge' = [e2 EXCEPT ![nxt] = new @@ [next |-> NULL]]
                          /\ ecur' = nxt
                          /\ estate' = estate
                          /\ elog' = Append(elog, new)

\* a free_edges that starts releasing at the node after the one it is given
free_edges_skip_first(current) == Range(EdgeChain(current)) \ {current}

\* the nodes free_edges passes to free()
free_edges_nodes(current) == Range(EdgeChain(current))

free_edges ==
    /\ estate \in {"live", "addfailed"}
    /\ SetHeap(HeapAfterFree(heapvars, free_edges_nodes(ehead)))
    /\ estate' = "freed"
    /\ UNCHANGED <<errorcode, edge, ehead, ecur, elog>>

\* fatal(error), as called by any other part of the program
fatal(error) ==
    /\ errorcode' = error
    /\ UNCHANGED heapvars

\* ---------------------------------------------------- padded signal buffer
my_max(a, b) == IF a > b THEN a ELSE b

\* number of doubles requested for paddedsignal
PaddedLength(readlength, data_order, event_order, filterpadding) ==
    readlength + 2 * (my_max(data_order, event_order) + filterpadding)

\* index of signal[0] inside paddedsignal
SignalOffset(data_order, filterpadding) == data_order + filterpadding

\* a third-stage cleanup that forgets the padded buffer
initialize_signal_release_struct_only(stage, s, p) ==
    IF stage = 1 THEN {} ELSE {s}

\* the blocks initialize_signal frees before returning NULL after the
\* errorcode test that follows allocation number stage
initialize_signal_release(stage, s, p) ==
    IF stage = 1 THEN {} ELSE IF stage = 2 THEN {s} ELSE {p, s}

Orders == {2 * k : k \in 0..MaxHalfOrder}
Datatypes == {CHIMERA, BINARY, IGOROPT}
SignalConfigs ==
    [readlength : 0..MaxReadLength, data_order : Orders, event_order : Orders,
     filterpadding : 0..MaxFilterPadding, datatype : Datatypes]

SignalReturn(ret, ec, h, contents, oks) ==
    /\ sig' = ret
    /\ errorcode' = ec
    /\ SetHeap(h)
    /\ sigs' = contents
    /\ soks' = oks
    /\ sstate' = IF ret = NULL THEN "failed" ELSE "ok"

initialize_signal(config) ==
    /\ sstate = "none"
    /\ scfg' = config
    /\ \E ok1, ok2, ok3 \in BOOLEAN :
         LET s   == calloc_and_check(heapvars, ok1)
             ec1 == calloc_errorcode(ok1, errorcode)
             h1  == HeapAfterCalloc(heapvars, ok1, 1)
         IN IF ec1 # 0
            THEN SignalReturn(NULL, ec1,
                     HeapAfterFree(h1, initialize_signal_release(1, s, NULL)),
                     sigs, <<ok1>>)
            ELSE
         LET plen == PaddedLength(config.readlength, config.data_order,
                                  config.event_order, config.filterpadding)
             p    == calloc_and_check(h1, ok2)
             ec2  == calloc_errorcode(ok2, ec1)
             h2   == HeapAfterCalloc(h1, ok2, plen)
         IN IF ec2 # 0
            THEN SignalReturn(NULL, ec2,
                     HeapAfterFree(h2, initialize_signal_release(2, s, p)),
                     sigs, <<ok1, ok2>>)
            ELSE
         LET known == config.datatype \in {CHIMERA, BINARY}
             r     == IF known THEN calloc_and_check(h2, ok3) ELSE NULL
             ec3   == IF known THEN calloc_errorcode(ok3, ec2) ELSE ERR_DATA
             h3    == IF known THEN HeapAfterCalloc(h2, ok3, config.readlength)
                               ELSE h2
             oks   == IF known THEN <<ok1, ok2, ok3>> ELSE <<ok1, ok2>>
             rec   == [paddedsignal |-> p,
                       signal |-> <<p, SignalOffset(config.data_order,
                                                    config.filterpadding)>>,
                       rawsignal |-> r]
         IN IF ec3 # 0
            THEN SignalReturn(NULL, ec3,
                     HeapAfterFree(h3, initialize_signal_release(3, s, p)),
                     sigs, oks)
            ELSE SignalReturn(s, ec3, h3, sigs @@ (s :> rec), oks)


\* ------------------------------------------------------ input file registry
\* fopen64_and_check: the handle returned when fopen64 succeeds (exists) or
\* returns NULL, with nh handles handed out before
fopen64_and_check(nh, exists) == IF exists THEN nh + 1 ELSE NULL

\* a fopen64_and_check that reports the failure and the handle it did not
\* get as an out-of-memory condition
fopen64_errorcode_mem(exists, ec) == IF exists THEN ec ELSE ERR_MEM

\* fopen64_and_check calls fatal(ERR_FILE) exactly when fopen64 returned NULL
fopen64_errorcode(exists, ec) == IF exists THEN ec ELSE ERR_FILE

ZeroFile == [data_file |-> NULL, datafilename |-> "", timestamp |-> 0,
             length |-> 0, offset |-> 0, daqsetup |-> NULL, next |-> NULL]

ZeroChimera == [samplerate |-> 0, TIAgain |-> 0, preADCgain |-> 0,
                currentoffset |-> 0, ADCvref |-> 0, ADCbits |-> 0]

\* settings files: whether fopen64 can open the file, and its
\* "name=value" lines
Line(name, value) == [name |-> name, value |-> value]
SettingsLines ==
    { <<>>,
      <<Line("SETUP_TIAgain", 5), Line("unknown", 7)>>,
      <<Line("mytimestamp", 0), Line("SETUP_ADCBITS", 14)>>,
      <<Line("mytimestamp", 3), Line("SETUP_ADCBITS", 14)>>,
      <<Line("SETUP_ADCBITS", 14), Line("mytimestamp", 3)>>,
      <<Line("ADCSAMPLERATE", 4), Line("mytimestamp", 6)>> }
NoSettings == [exists |-> FALSE, lines |-> <<>>]
SettingsFiles == {[exists |-> TRUE, lines |-> l] : l \in SettingsLines}

\* data files: whether fopen64 can open the file, and its size in bytes
FileNames == {"a.log", "b.log"}
FileSizes == {5, 1000}
NoData == [exists |-> FALSE, size |-> 0]
DataFiles == {[exists |-> TRUE, size |-> n] : n \in FileSizes}
DataSizes == {1, 2, 8}
HeaderBytes == {0, 8}
BinaryConfigs ==
    [n_arrays : 1..MaxArrays, data_size : DataSizes, header_bytes : HeaderBytes]
NoBinaryConfig == [n_arrays |-> 1, data_size |-> 1, header_bytes |-> 0]

HasKey(settings, name) ==
    \E i \in 1..Len(settings.lines) : settings.lines[i].name = name

\* one pass of the while loop over the settings lines: st is
\* [timestamp, chimera]
ParseLine(st, line) ==
    LET c1 == IF line.name = "SETUP_TIAgain"
              THEN [st.chimera EXCEPT !.TIAgain = line.value] ELSE st.chimera
        c2 == IF line.name = "ADCSAMPLERATE"
              THEN [c1 EXCEPT !.samplerate = line.value] ELSE c1
        c3 == IF line.name = "SETUP_preADCgain"
              THEN [c2 EXCEPT !.preADCgain = line.value] ELSE c2
        c4 == IF line.name = "SETUP_pAoffset"
              THEN [c3 EXCEPT !.currentoffset = line.value] ELSE c3
        c5 == IF line.name = "SETUP_ADCVREF"
              THEN [c4 EXCEPT !.ADCvref = line.value] ELSE c4
    IN IF line.name = "mytimestamp"
       THEN [timestamp |-> line.value, chimera |-> c5]
       ELSE IF line.name = "SETUP_ADCBITS"
            THEN [timestamp |-> st.timestamp,
                  chimera |-> [c5 EXCEPT !.ADCbits = line.value]]
            ELSE [timestamp |-> st.timestamp, chimera |-> c5]

RECURSIVE ParseSettings(_, _)
ParseSettings(st, lines) ==
    IF lines = <<>> THEN st
    ELSE ParseSettings(ParseLine(st, Head(lines)), Tail(lines))

\* C division of int64 values, truncating toward zero (b > 0)
CDiv(a, b) == IF a >= 0 THEN a \div b ELSE -((-a) \div b)

\* a sample size that forgets the interleaved arrays
SampleSizeBytes_one_array(datatype, bincfg) ==
    IF datatype = CHIMERA THEN 2
    ELSE IF datatype = BINARY THEN bincfg.data_size % 65536
    ELSE 0

\* uint16_t sample_size_bytes after the switch on datatype
SampleSizeBytes(datatype, bincfg) ==
    IF datatype = CHIMERA THEN 2
    ELSE IF datatype = BINARY THEN (bincfg.data_size * bincfg.n_arrays) % 65536
    ELSE 0

\* int64_t header_bytes after the switch on datatype
HeaderBytesOf(datatype, bincfg) ==
    IF datatype = BINARY THEN bincfg.header_bytes ELSE 0

\* the nodes reached from p, in order
RECURSIVE FileChain(_)
FileChain(p) ==
    IF p = NULL THEN <<>> ELSE <<p>> \o FileChain(file[p].next)

\* get_filesize: sum of the lengths of the nodes reached from input
RECURSIVE get_filesize(_)
get_filesize(input) ==
    IF input = NULL THEN 0
    ELSE file[input].length + get_filesize(file[input].next)

initialize_input_files(datatype, bincfg) ==
    /\ fstate = "none"
    /\ fdatatype' = datatype
    /\ fbincfg' = bincfg
    /\ UNCHANGED <<flog, fsettings, nhandles, openhandles>>
    /\ \E ok1, ok2 \in BOOLEAN :
         LET head == calloc_and_check(heapvars, ok1)
             ec1  == calloc_errorcode(ok1, errorcode)
             h1   == HeapAfterCalloc(heapvars, ok1, 1)
             f1   == IF ok1 THEN file @@ (head :> ZeroFile) ELSE file
         IN IF ec1 # 0
            THEN /\ errorcode' = ec1 /\ SetHeap(h1)
                 /\ file' = f1 /\ daq' = daq
                 /\ fhead' = NULL /\ fcur' = NULL /\ fstate' = "initfailed"
            ELSE IF datatype = CHIMERA
            THEN LET d   == calloc_and_check(h1, ok2)
                     ec2 == calloc_errorcode(ok2, ec1)
                     h2  == HeapAfterCalloc(h1, ok2, 1)
                 IN IF ec2 # 0
                    THEN /\ errorcode' = ec2
                         /\ SetHeap(HeapAfterFree(h2, {head}))
                         /\ file' = [f1 EXCEPT ![head].daqsetup = d]
                         /\ daq' = daq
                         /\ fhead' = NULL /\ fcur' = NULL
                         /\ fstate' = "initfailed"
                    ELSE /\ errorcode' = ec2 /\ SetHeap(h2)
                         /\ file' = [f1 EXCEPT ![head].daqsetup = d]
                         /\ daq' = daq @@ (d :> ZeroChimera)
                         /\ fhead' = head /\ fcur' = head /\ fstate' = "live"
            ELSE /\ errorcode' = ec1 /\ SetHeap(h1)
                 /\ file' = f1 /\ daq' = daq
                 /\ fhead' = head /\ fcur' = head /\ fstate' = "live"

\* add_input_file returns NULL
AddFileFail(ec, h, f, dq, nh, open) ==
    /\ errorcode' = ec /\ SetHeap(h)
    /\ file' = f /\ daq' = dq
    /\ nhandles' = nh /\ openhandles' = open
    /\ fcur' = NULL /\ fstate' = "addfailed"
    /\ UNCHANGED <<fhead, flog, fsettings, fdatatype, fbincfg>>

\* the process is killed inside the call (invalid store, division by zero)
AddFileCrash(ec, h) ==
    /\ errorcode' = ec /\ SetHeap(h)
    /\ fstate' = "crashed"
    /\ UNCHANGED <<file, daq, nhandles, openhandles, fcur, fhead, flog,
                   fsettings, fdatatype, fbincfg>>

\* the blocks the two failure paths after the node is chosen pass to free()
add_input_file_release(insert, daqsetup, headflag) == {daqsetup, insert}

\* add_input_file from "insert->offset = 0" on (utils.c:493-583)
AddFileBody(current, insert, headflag, ec, h, f, dq, filename, settings, data) ==
    LET f1 == [f EXCEPT ![insert].offset = 0]
        chimera == fdatatype = CHIMERA
        \* settings file
        sopen == chimera /\ settings.exists
        sh    == IF chimera THEN fopen64_and_check(nhandles, sopen) ELSE NULL
        ecS   == IF chimera THEN fopen64_errorcode(sopen, ec) ELSE ec
        nh1   == IF sopen THEN nhandles + 1 ELSE nhandles
        open1 == IF sopen THEN openhandles \cup {sh} ELSE openhandles
    IN IF ecS # 0
       THEN AddFileFail(ecS,
                HeapAfterFree(h, add_input_file_release(insert,
                                     f1[insert].daqsetup, headflag)),
                f1, dq, nh1, open1)
       ELSE
    LET st    == IF chimera
                 THEN ParseSettings([timestamp |-> f1[insert].timestamp,
                                     chimera |-> dq[f1[insert].daqsetup]],
                                    settings.lines)
                 ELSE [timestamp |-> f1[insert].timestamp, chimera |-> ZeroChimera]
        f2    == [f1 EXCEPT ![insert].timestamp = st.timestamp]
        dq2   == IF chimera THEN [dq EXCEPT ![f1[insert].daqsetup] = st.chimera]
                            ELSE dq
        open2 == open1 \ {sh}
        \* sample size
        ss    == SampleSizeBytes(fdatatype, fbincfg)
        hb    == HeaderBytesOf(fdatatype, fbincfg)
        ecD   == IF fdatatype \in {CHIMERA, BINARY} THEN ecS ELSE ERR_DATA
        \* data file
        f3    == [f2 EXCEPT ![insert].datafilename = filename]
        dopen == data.exists
        dh    == fopen64_and_check(nh1, dopen)
        ecF   == fopen64_errorcode(dopen, ecD)
        nh2   == IF dopen THEN nh1 + 1 ELSE nh1
        open3 == IF dopen THEN open2 \cup {dh} ELSE open2
        f4    == [f3 EXCEPT ![insert].data_file = dh]
    IN IF ecF # 0
       THEN AddFileFail(ecF,
                HeapAfterFree(h, add_input_file_release(insert,
                                     f4[insert].daqsetup, headflag)),
                f4, dq2, nh2, open3)
       ELSE IF ss = 0
       THEN AddFileCrash(ecF, h)
       ELSE
    LET len == CDiv(data.size - hb, ss)
        f5  == [f4 EXCEPT ![insert].length = len, ![insert].data_file = NULL]
        f6  == IF ~chimera
               THEN [f5 EXCEPT ![insert].timestamp = f5[current].timestamp + 1]
               ELSE f5
        f7  == IF ~headflag THEN [f6 EXCEPT ![current].next = insert] ELSE f6
    IN /\ errorcode' = ecF /\ SetHeap(h)
       /\ file' = f7 /\ daq' = dq2
       /\ nhandles' = nh2 /\ openhandles' = open3 \ {dh}
       /\ fcur' = insert
       /\ flog' = Append(flog, [name |-> filename, size |-> data.size,
                                length |-> f7[insert].length,
                                timestamp |-> f7[insert].timestamp,
                                haskey |-> HasKey(settings, "mytimestamp"),
                                node |-> insert])
       /\ fsettings' = settings.lines
       /\ UNCHANGED <<fhead, fstate, fdatatype, fbincfg>>

add_input_file(filename, settings, data) ==
    /\ fstate = "live"
    /\ fcur # NULL
    /\ Len(flog) < MaxFiles
    /\ IF file[fcur].timestamp > 0
       THEN \E ok1, ok2 \in BOOLEAN, stops \in BOOLEAN :
            LET insert == calloc_and_check(heapvars, ok1)
                ec1    == calloc_errorcode(ok1, errorcode)
                h1     == HeapAfterCalloc(heapvars, ok1, 1)
                f1     == IF ok1 THEN file @@ (insert :> ZeroFile) ELSE file
            IN \* insert->daqsetup = NULL is executed before errorcode is
               \* tested: with insert == NULL the store is invalid
               IF ~ok1 /\ stops
               THEN AddFileCrash(ec1, h1)
               ELSE IF ec1 # 0
               THEN AddFileFail(ec1, h1, f1, daq, nhandles, openhandles)
               ELSE IF fdatatype = CHIMERA
               THEN LET d   == calloc_and_check(h1, ok2)
                        ec2 == calloc_errorcode(ok2, ec1)
                        h2  == HeapAfterCalloc(h1, ok2, 1)
                        f2  == [f1 EXCEPT ![insert].daqsetup = d]
                    IN IF ec2 # 0
                       THEN AddFileFail(ec2, HeapAfterFree(h2, {insert}), f2,
                                        daq, nhandles, openhandles)
                       ELSE AddFileBody(fcur, insert, FALSE, ec2, h2, f2,
                                        daq @@ (d :> ZeroChimera),
                                        filename, settings, data)
               ELSE AddFileBody(fcur, insert, FALSE, ec1, h1, f1, daq,
                                filename, settings, data)
       ELSE AddFileBody(fcur, fcur, TRUE, errorcode, heapvars, file, daq,
                        filename, settings, data)

\* the blocks free_input_files passes to free()
free_input_files_blocks(current) ==
    UNION {{file[n].daqsetup, n} : n \in Range(FileChain(current))} \ {NULL}

\* the handles free_input_files passes to fclose()
free_input_files_handles(current) ==
    {file[n].data_file : n \in Range(FileChain(current))} \ {NULL}

free_input_files ==
    /\ fstate \in {"live", "addfailed"}
    /\ UNCHANGED <<errorcode, file, daq, fhead, fcur, fdatatype, fbincfg, flog,
                   fsettings, nhandles>>
    /\ \E stops \in BOOLEAN :
         \* with a head that was already freed the traversal reads freed
         \* memory: it either sees the old contents or the process is killed
         IF fhead \notin allocated /\ stops
         THEN fstate' = "crashed" /\ UNCHANGED <<heapvars, openhandles>>
         ELSE /\ SetHeap(HeapAfterFree(heapvars, free_input_files_blocks(fhead)))
              /\ openhandles' = openhandles \ free_input_files_handles(fhead)
              /\ fstate' = "freed"

\* ------------------------------------------- direct use of the checked layer
\* element counts a caller passes to calloc_and_check
CallocNums == 0..MaxNum

\* calloc_and_check(num, size, msg) called directly.  calloc may return NULL
\* for any request; for num = 0 the C library is free to return either NULL
\* or a unique pointer even with memory available.
calloc_and_check_call(num) ==
    /\ Len(calls) < MaxCalls
    /\ \E ok \in BOOLEAN :
         /\ errorcode' = calloc_errorcode(ok, errorcode)
         /\ SetHeap(HeapAfterCalloc(heapvars, ok, num))
         /\ calls' = Append(calls,
                [op |-> "calloc", num |-> num,
                 ret |-> calloc_and_check(heapvars, ok),
                 before |-> errorcode,
                 after |-> calloc_errorcode(ok, errorcode)])
    /\ UNCHANGED <<nhandles, openhandles>>

\* fopen64_and_check(fname, mode, caller) called directly on a file that
\* fopen64 can (exists) or cannot open
fopen64_and_check_call(exists) ==
    /\ Len(calls) < MaxCalls
    /\ errorcode' = fopen64_errorcode(exists, errorcode)
    /\ nhandles' = IF exists THEN nhandles + 1 ELSE nhandles
    /\ openhandles' = IF exists
                      THEN openhandles \cup {fopen64_and_check(nhandles, exists)}
                      ELSE openhandles
    /\ calls' = Append(calls,
           [op |-> "fopen", num |-> 0,
            ret |-> fopen64_and_check(nhandles, exists),
            before |-> errorcode,
            after |-> fopen64_errorcode(exists, errorcode)])
    /\ UNCHANGED heapvars

\* ------------------------------------------------------------------ events
ZeroEvent ==
    [index |-> 0, start |-> 0, finish |-> 0, length |-> 0, type |-> 0,
     area |-> 0, fitted_area |-> 0, baseline_before |-> 0,
     baseline_after |-> 0, average_blockage |-> 0, max_blockage |-> 0,
     max_length |-> 0, min_blockage |-> 0, min_length |-> 0,
     signal |-> NULL, paddedsignal |-> NULL, filtered_signal |-> NULL,
     rawsignal |-> NULL, padding_before |-> 0, padding_after |-> 0,
     extra_before |-> 0, extra_after |-> 0, numlevels |-> 0, threshold |-> 0,
     delta |-> 0, rc1 |-> 0, rc2 |-> 0, residual |-> 0, maxdeviation |-> 0,
     local_baseline |-> 0, local_stdev |-> 0, intracrossings |-> 0,
     intra_edges |-> NULL, first_edge |-> NULL, first_level |-> NULL]

ZeroLevel ==
    [current |-> 0, stdev |-> 0, maxdeviation |-> 0, maxdevindex |-> 0,
     raw_level_ecd |-> 0, fitted_level_ecd |-> 0, length |-> 0, next |-> NULL]

EventStarts == {1}
EventFinishes == {1, 4}
EventIndices == {1}
EventStdevs == {1}
EventBaselines == {2}

\* the nodes free_levels visits from p, in order
RECURSIVE LevelChain(_)
LevelChain(p) ==
    IF p = NULL THEN <<>> ELSE <<p>> \o LevelChain(level[p].next)

initialize_events ==
    /\ evstate = "none"
    /\ \E ok \in BOOLEAN :
         LET head == calloc_and_check(heapvars, ok)
             ec   == calloc_errorcode(ok, errorcode)
         IN /\ errorcode' = ec
            /\ SetHeap(HeapAfterCalloc(heapvars, ok, 1))
            /\ IF ec # 0
               THEN /\ event' = IF ok THEN event @@ (head :> ZeroEvent) ELSE event
                    /\ ev' = NULL /\ evstate' = "initfailed"
               ELSE /\ event' = event @@ (head :>
                          [ZeroEvent EXCEPT !.type = 0, !.threshold = 0,
                               !.rc1 = 0, !.rc2 = 0, !.index = HEAD,
                               !.signal = NULL, !.filtered_signal = NULL,
                               !.first_edge = NULL, !.first_level = NULL,
                               !.intra_edges = NULL])
                    /\ ev' = head /\ evstate' = "live"
    /\ UNCHANGED <<edge, level, evlog, evpre, evfreed, kind>>

\* an add_event that starts from a zeroed node
add_event_node_from_zero(e, start, finish, index, local_stdev, local_baseline) ==
    [ZeroEvent EXCEPT !.index = index, !.start = start, !.finish = finish,
         !.length = finish - start, !.local_stdev = local_stdev,
         !.local_baseline = local_baseline]

\* *current after the assignments of add_event
add_event_node(e, start, finish, index, local_stdev, local_baseline) ==
    [e EXCEPT !.type = 0, !.index = index, !.start = start,
         !.finish = finish, !.length = finish - start, !.threshold = 0,
         !.rc1 = 0, !.rc2 = 0, !.local_stdev = local_stdev,
         !.local_baseline = local_baseline, !.first_edge = NULL,
         !.first_level = NULL, !.intra_edges = NULL, !.signal = NULL,
         !.filtered_signal = NULL, !.rawsignal = NULL, !.paddedsignal = NULL,
         !.intracrossings = 0]

add_event(start, finish, index, local_stdev, local_baseline) ==
    /\ evstate \in {"live", "added", "populated", "disposed"}
    /\ Len(evlog) < MaxEvents
    /\ event' = [event EXCEPT ![ev] =
                    add_event_node(@, start, finish, index, local_stdev,
                                   local_baseline)]
    /\ evlog' = Append(evlog, [start |-> start, finish |-> finish,
                               index |-> index, local_stdev |-> local_stdev,
                               local_baseline |-> local_baseline])
    /\ evstate' = "added"
    /\ UNCHANGED <<errorcode, heapvars, edge, level, ev, evpre, evfreed, kind>>

\* the pointer fields through which an event owns memory, in the order the
\* detection stage fills them
OwnedFields == <<"rawsignal", "paddedsignal", "signal", "filtered_signal",
                 "first_edge", "intra_edges", "first_level">>
BufferFields == {"rawsignal", "paddedsignal", "signal", "filtered_signal"}

\* number of blocks the detection stage allocates for field f: one buffer,
\* or a list of n nodes
BlocksFor(f, S, n) == IF f \notin S THEN 0 ELSE IF f \in BufferFields THEN 1 ELSE n

RECURSIVE BlocksBefore(_, _, _)
BlocksBefore(i, S, n) ==
    IF i = 1 THEN 0
    ELSE BlocksBefore(i - 1, S, n) + BlocksFor(OwnedFields[i - 1], S, n)

FieldIndex(f) == CHOOSE i \in 1..Len(OwnedFields) : OwnedFields[i] = f

\* first block of field f when the fields of S are allocated after nb blocks
FirstBlock(f, S, n, nb) ==
    IF f \in S THEN nb + BlocksBefore(FieldIndex(f), S, n) + 1 ELSE NULL

\* the statistics the detection stage writes once an event is complete
Detected(e, n) ==
    [e EXCEPT !.area = 7, !.fitted_area = 6, !.baseline_before = 2,
         !.baseline_after = 2, !.average_blockage = 3, !.max_blockage = 4,
         !.max_length = 1, !.min_blockage = 1, !.min_length = 2,
         !.padding_before = 1, !.padding_after = 1, !.extra_before = 1,
         !.extra_after = 1, !.numlevels = n, !.delta = 1, !.residual = 5,
         !.maxdeviation = 2, !.type = 1, !.threshold = 3, !.rc1 = 1,
         !.rc2 = 2, !.intracrossings = n]

\* the detection stage completes the event, once: it allocates the buffers
\* and sublists named by S (lists of n nodes), hangs them on the event and
\* fills in the statistics
populate_event(S, n) ==
    /\ evstate = "added"
    /\ kind = <<>>
    /\ LET total == BlocksBefore(Len(OwnedFields) + 1, S, n)
           fresh == (nblocks + 1)..(nblocks + total)
           first(f) == FirstBlock(f, S, n, nblocks)
           owner(b) == CHOOSE f \in S :
                          /\ first(f) <= b
                          /\ b < first(f) + BlocksFor(f, S, n)
           nodes(f) == IF f \in S THEN first(f)..(first(f) + n - 1) ELSE {}
           nxt(f, b) == IF b = first(f) + n - 1 THEN NULL ELSE b + 1
       IN /\ SetHeap(<<nblocks + total, allocated \cup fresh,
                       freecount @@ [b \in fresh |-> 0],
                       blocknum @@ [b \in fresh |-> 1]>>)
          /\ kind' = kind @@ [b \in fresh |-> owner(b)]
          /\ edge' = edge @@
                [b \in nodes("first_edge") \cup nodes("intra_edges") |->
                    [ZeroEdge EXCEPT !.location = b, !.type = 1,
                         !.next = IF b \in nodes("first_edge")
                                  THEN nxt("first_edge", b)
                                  ELSE nxt("intra_edges", b)]]
          /\ level' = level @@
                [b \in nodes("first_level") |->
                    [ZeroLevel EXCEPT !.current = b, !.length = 1,
                         !.next = nxt("first_level", b)]]
          /\ event' = [event EXCEPT ![ev] =
                [Detected(@, n) EXCEPT
                     !.rawsignal = first("rawsignal"),
                     !.paddedsignal = first("paddedsignal"),
                     !.signal = first("signal"),
                     !.filtered_signal = first("filtered_signal"),
                     !.first_edge = first("first_edge"),
                     !.intra_edges = first("intra_edges"),
                     !.first_level = first("first_level")]]
    /\ evstate' = "populated"
    /\ UNCHANGED <<errorcode, ev, evlog, evpre, evfreed>>

\* free_single_event with the two lists released before the buffers
free_single_event_order_lists_first(e) ==
    (IF e.first_edge # NULL THEN EdgeChain(e.first_edge) ELSE <<>>)
    \o (IF e.intra_edges # NULL THEN EdgeChain(e.intra_edges) ELSE <<>>)
    \o (IF e.rawsignal # NULL THEN <<e.rawsignal>> ELSE <<>>)
    \o (IF e.paddedsignal # NULL THEN <<e.paddedsignal>> ELSE <<>>)
    \o (IF e.filtered_signal # NULL THEN <<e.filtered_signal>> ELSE <<>>)
    \o (IF e.first_level # NULL THEN LevelChain(e.first_level) ELSE <<>>)

\* the blocks free_single_event passes to free(), in the order of the calls
free_single_event_order(e) ==
    (IF e.rawsignal # NULL THEN <<e.rawsignal>> ELSE <<>>)
    \o (IF e.paddedsignal # NULL THEN <<e.paddedsignal>> ELSE <<>>)
    \o (IF e.filtered_signal # NULL THEN <<e.filtered_signal>> ELSE <<>>)
    \o (IF e.first_edge # NULL THEN EdgeChain(e.first_edge) ELSE <<>>)
    \o (IF e.intra_edges # NULL THEN EdgeChain(e.intra_edges) ELSE <<>>)
    \o (IF e.first_level # NULL THEN LevelChain(e.first_level) ELSE <<>>)

\* a free_single_event that leaves the pointers it freed in place
free_single_event_node_kept(e) == e

\* *current when free_single_event returns
free_single_event_node(e) ==
    [e EXCEPT !.rawsignal = NULL, !.paddedsignal = NULL,
         !.filtered_signal = NULL, !.first_edge = NULL,
         !.intra_edges = NULL, !.first_level = NULL]

free_single_event ==
    /\ evstate \in {"live", "added", "populated", "disposed"}
    /\ SetHeap(HeapAfterFree(heapvars, Range(free_single_event_order(event[ev]))))
    /\ evfreed' = free_single_event_order(event[ev])
    /\ evpre' = event[ev]
    /\ event' = [event EXCEPT ![ev] = free_single_event_node(@)]
    /\ evstate' = "disposed"
    /\ UNCHANGED <<errorcode, edge, level, ev, evlog, kind>>

\* ---------------------------------------------------------- duration list
DurationValues == {-1, 0, 1, 2}

\* the nodes reached from p, in order
RECURSIVE DurationChain(_)
DurationChain(p) ==
    IF p = NULL THEN <<>> ELSE <<p>> \o DurationChain(dur[p].next)

DurationTraverse(p) ==
    [i \in 1..Len(DurationChain(p)) |-> dur[DurationChain(p)[i]].duration]

initialize_durations ==
    /\ dstate = "none"
    /\ \E ok \in BOOLEAN :
         LET head == calloc_and_check(heapvars, ok)
             ec   == calloc_errorcode(ok, errorcode)
         IN /\ errorcode' = ec
            /\ SetHeap(HeapAfterCalloc(heapvars, ok, 1))
            /\ dur' = IF ok THEN dur @@ (head :> [duration |-> 0, next |-> NULL])
                            ELSE dur
            /\ IF ec # 0
               THEN dhead' = NULL /\ dcur' = NULL /\ dstate' = "initfailed"
               ELSE dhead' = head /\ dcur' = head /\ dstate' = "live"
    /\ UNCHANGED dlog

\* a sentinel test that takes only negative durations for "not filled"
DurationIsUnfilled_negative(node) == node.duration < 0

\* the test add_duration uses to recognise a node that is not filled yet
DurationIsUnfilled(node) == node.duration <= 0

add_duration(duration) ==
    /\ dstate = "live"
    /\ Len(dlog) < MaxDurations
    /\ IF DurationIsUnfilled(dur[dcur])
       THEN /\ dur' = [dur EXCEPT ![dcur].duration = duration]
            /\ dlog' = Append(dlog, duration)
            /\ UNCHANGED <<errorcode, heapvars, dhead, dcur, dstate>>
       ELSE \E ok \in BOOLEAN :
            LET n  == calloc_and_check(heapvars, ok)
                ec == calloc_errorcode(ok, errorcode)
                d1 == [dur EXCEPT ![dcur].next = n]
            IN /\ errorcode' = ec
               /\ SetHeap(HeapAfterCalloc(heapvars, ok, 1))
               /\ dhead' = dhead
               /\ IF ec # 0
                  THEN /\ dur' = IF ok
                                 THEN d1 @@ (n :> [duration |-> 0, next |-> NULL])
                                 ELSE d1
                       /\ dcur' = NULL /\ dstate' = "addfailed"
                       /\ dlog' = dlog
                  ELSE /\ dur' = d1 @@ (n :> [duration |-> duration, next |-> NULL])
                       /\ dcur' = n /\ dstate' = "live"
                       /\ dlog' = Append(dlog, duration)

free_durations ==
    /\ dstate \in {"live", "addfailed"}
    /\ SetHeap(HeapAfterFree(heapvars, Range(DurationChain(dhead))))
    /\ dstate' = "freed"
    /\ UNCHANGED <<errorcode, dur, dhead, dcur, dlog>>

\* ------------------------------------------------------ baseline histogram
\* config->readlength, and <<config->baseline_min, config->baseline_max>>
BaselineReadLengths == {0, 1, 8, 27, 63, 64, 8000}
BaselineRanges == {<<0, 4>>, <<-2, 2>>, <<3, 3>>}
BaselineConfigs ==
    {[readlength |-> n, baseline_min |-> r[1], baseline_max |-> r[2]] :
        n \in BaselineReadLengths, r \in BaselineRanges}

\* the largest k with k^3 <= 8 n, that is floor(2 * n^(1/3)) over the reals
FloorTwiceCubeRoot(n) ==
    CHOOSE k \in 0..(2 * n + 1) :
        k * k * k <= 8 * n /\ 8 * n < (k + 1) * (k + 1) * (k + 1)

\* (int64_t) (2 * pow(readlength, 1.0/3.0)) in IEEE-754 double arithmetic.
\* The constant 1.0/3.0 is the double just below one third,
\* (2^54 - 1) / (3 * 2^54), so for readlength = m^3 the exact power is
\* m^(1 - 2^-54), below m by about m * ln(m) * 2^-54.  For m <= 3 that is
\* less than half the spacing of the doubles below m and pow returns m; for
\* m >= 4 it is more, pow returns the double just below m, and twice that
\* value truncates to 2 m - 1.  Away from exact cubes the rounding is far
\* smaller than the distance to the next integer.
baseline_numbins(readlength) ==
    LET k == FloorTwiceCubeRoot(readlength)
    IN IF k * k * k = 8 * readlength /\ k >= 8 THEN k - 1 ELSE k

\* a double quotient a / b kept exact as <<a, b>>; <<a, 0>> is the
\* infinity or NaN the division by zero produces
Quotient(a, b) == <<a, b>>

\* baseline_min + i * delta with delta = range / numbins, as a quotient
baseline_center(baseline_min, range, numbins, i) ==
    Quotient(baseline_min * numbins + i * range, numbins)

ZeroBaseline ==
    [histogram |-> NULL, current |-> NULL, numbins |-> 0, baseline_min |-> 0,
     baseline_max |-> 0, range |-> 0, delta |-> Quotient(0, 1), mean |-> 0,
     stdev |-> 0, amplitude |-> 0]

BaselineReturn(p, ec, h, b, c, config) ==
    /\ bptr' = p /\ errorcode' = ec /\ SetHeap(h)
    /\ base' = b /\ centers' = c /\ bcfg' = config
    /\ bstate' = IF p = NULL THEN "failed" ELSE "ok"

initialize_baseline(config) ==
    /\ bstate = "none"
    /\ \E ok1, ok2, ok3 \in BOOLEAN :
         LET baseline == calloc_and_check(heapvars, ok1)
             ec1 == calloc_errorcode(ok1, errorcode)
             h1  == HeapAfterCalloc(heapvars, ok1, 1)
             b1  == IF ok1 THEN base @@ (baseline :> ZeroBaseline) ELSE base
         IN IF ec1 # 0
            THEN BaselineReturn(NULL, ec1, h1, b1, centers, config)
            ELSE
         LET range   == config.baseline_max - config.baseline_min
             numbins == baseline_numbins(config.readlength)
             hist    == calloc_and_check(h1, ok2)
             ec2     == calloc_errorcode(ok2, ec1)
             h2      == HeapAfterCalloc(h1, ok2, numbins)
             b2      == [b1 EXCEPT ![baseline] =
                            [@ EXCEPT !.baseline_min = config.baseline_min,
                                 !.baseline_max = config.baseline_max,
                                 !.range = range, !.numbins = numbins,
                                 !.delta = Quotient(range, numbins),
                                 !.histogram = hist]]
         IN IF ec2 # 0
            THEN BaselineReturn(NULL, ec2, HeapAfterFree(h2, {baseline}), b2,
                                centers, config)
            ELSE
         LET cur == calloc_and_check(h2, ok3)
             ec3 == calloc_errorcode(ok3, ec2)
             h3  == HeapAfterCalloc(h2, ok3, numbins)
             b3  == [b2 EXCEPT ![baseline].current = cur]
         IN IF ec3 # 0
            THEN BaselineReturn(NULL, ec3, HeapAfterFree(h3, {hist, baseline}),
                                b3, centers, config)
            ELSE BaselineReturn(baseline, ec3, h3, b3,
                     centers @@ (cur :>
                        [j \in 1..numbins |->
                            baseline_center(config.baseline_min, range,
                                            numbins, j - 1)]),
                     config)

free_baseline ==
    /\ bstate = "ok"
    /\ SetHeap(HeapAfterFree(heapvars,
                   {base[bptr].histogram, base[bptr].current, bptr}))
    /\ bstate' = "freed"
    /\ UNCHANGED <<errorcode, base, centers, bptr, bcfg>>

\* -------------------------------------------------------------- level list
LevelCurrents == {1, 2}
LevelLengths == {0, 1, 2}

LevelFields(p) == [current |-> level[p].current, length |-> level[p].length]

LevelTraverse(p) ==
    [i \in 1..Len(LevelChain(p)) |-> LevelFields(LevelChain(p)[i])]

\* initialize_levels stores into *head without looking at errorcode: with
\* head == NULL the stores are invalid, and the process is killed or goes on
\* to return the NULL pointer
initialize_levels ==
    /\ lstate = "none"
    /\ \E ok \in BOOLEAN, stops \in BOOLEAN :
         LET head == calloc_and_check(heapvars, ok)
         IN /\ errorcode' = calloc_errorcode(ok, errorcode)
            /\ SetHeap(HeapAfterCalloc(heapvars, ok, 1))
            /\ IF ok
               THEN /\ level' = level @@ (head :>
                           [ZeroLevel EXCEPT !.current = 0, !.length = 0,
                                             !.next = NULL])
                    /\ lhead' = head /\ lcur' = head
                    /\ lstate' = "live" /\ lnull' = lnull
               ELSE /\ level' = level
                    /\ lhead' = NULL /\ lcur' = NULL
                    /\ lstate' = IF stops THEN "crashed" ELSE "initfailed"
                    /\ lnull' = TRUE
    /\ UNCHANGED llog

\* a sentinel test that takes any node for filled
LevelIsFilled_always(node) == TRUE

\* the test add_cusum_level uses to recognise a node that is filled
LevelIsFilled(node) == node.length > 0

\* add_cusum_level stores into *lastlevel->next without looking at
\* errorcode: with a NULL result the stores are invalid
add_cusum_level(current, length) ==
    /\ lstate = "live"
    /\ lcur # NULL
    /\ Len(llog) < MaxLevels
    /\ lhead' = lhead
    /\ IF LevelIsFilled(level[lcur])
       THEN \E ok \in BOOLEAN, stops \in BOOLEAN :
            LET n  == calloc_and_check(heapvars, ok)
                l1 == [level EXCEPT ![lcur].next = n]
            IN /\ errorcode' = calloc_errorcode(ok, errorcode)
               /\ SetHeap(HeapAfterCalloc(heapvars, ok, 1))
               /\ IF ok
                  THEN /\ level' = l1 @@ (n :>
                              [ZeroLevel EXCEPT !.current = current,
                                                !.length = length,
                                                !.next = NULL])
                       /\ lcur' = n /\ lstate' = "live" /\ lnull' = lnull
                       /\ llog' = Append(llog, [current |-> current,
                                                length |-> length])
                  ELSE /\ level' = l1
                       /\ lcur' = NULL
                       /\ lstate' = IF stops THEN "crashed" ELSE "addfailed"
                       /\ lnull' = TRUE
                       /\ llog' = llog
       ELSE /\ level' = [level EXCEPT ![lcur].current = current,
                                      ![lcur].length = length,
                                      ![lcur].next = NULL]
            /\ llog' = Append(llog, [current |-> current, length |-> length])
            /\ UNCHANGED <<errorcode, heapvars, lcur, lnull, lstate>>

free_levels ==
    /\ lstate \in {"live", "addfailed"}
    /\ SetHeap(HeapAfterFree(heapvars, Range(LevelChain(lhead))))
    /\ lstate' = "freed"
    /\ UNCHANGED <<errorcode, level, lhead, lcur, llog, lnull>>

vars == <<errorcode, heapvars, edgevars, sigvars, filevars, callvars,
          eventvars, durvars, basevars, levelvars>>

Init ==
    /\ errorcode = 0
    /\ nblocks = 0
    /\ allocated = {}
    /\ freecount = <<>>
    /\ blocknum = <<>>
    /\ edge = <<>>
    /\ ehead = NULL
    /\ ecur = NULL
    /\ elog = <<>>
    /\ estate = "none"
    /\ sigs = <<>>
    /\ sig = NULL
    /\ scfg = <<>>
    /\ soks = <<>>
    /\ sstate = "none"
    /\ file = <<>>
    /\ daq = <<>>
    /\ fhead = NULL
    /\ fcur = NULL
    /\ fdatatype = CHIMERA
    /\ fbincfg = NoBinaryConfig
    /\ flog = <<>>
    /\ fsettings = <<>>
    /\ nhandles = 0
    /\ openhandles = {}
    /\ fstate = "none"
    /\ calls = <<>>
    /\ event = <<>>
    /\ level = <<>>
    /\ ev = NULL
    /\ evlog = <<>>
    /\ evpre = ZeroEvent
    /\ evfreed = <<>>
    /\ kind = <<>>
    /\ evstate = "none"
    /\ dur = <<>>
    /\ dhead = NULL
    /\ dcur = NULL
    /\ dlog = <<>>
    /\ dstate = "none"
    /\ base = <<>>
    /\ centers = <<>>
    /\ bptr = NULL
    /\ bcfg = <<>>
    /\ bstate = "none"
    /\ lhead = NULL
    /\ lcur = NULL
    /\ llog = <<>>
    /\ lnull = FALSE
    /\ lstate = "none"

\* an error raised by another component before the call under study
OtherErrors == {ERR_FILE}

\* the variables each group of operations leaves alone
exceptEdges == <<sigvars, filevars, callvars, eventvars, durvars, basevars,
                 levelvars>>
exceptSignal == <<edgevars, filevars, callvars, eventvars, durvars, basevars,
                  levelvars>>
exceptFiles == <<edgevars, sigvars, callvars, eventvars, durvars, basevars,
                 levelvars>>
exceptCalls == <<edgevars, sigvars, file, daq, fhead, fcur, fdatatype, fbincfg,
                 flog, fsettings, fstate, eventvars, durvars, basevars,
                 levelvars>>
exceptEvents == <<ehead, ecur, elog, estate, sigvars, filevars, callvars,
                  durvars, basevars, levelvars>>
exceptDurations == <<edgevars, sigvars, filevars, callvars, eventvars, basevars,
                     levelvars>>
exceptBaseline == <<edgevars, sigvars, filevars, callvars, eventvars, durvars,
                    levelvars>>
exceptLevels == <<edgevars, sigvars, filevars, callvars, event, ev, evlog,
                  evpre, evfreed, kind, evstate, durvars, basevars>>
exceptHeap == <<edgevars, sigvars, filevars, callvars, eventvars, durvars,
                basevars, levelvars>>

NextEdges ==
    \/ initialize_edges /\ UNCHANGED exceptEdges
    \/ \E l \in EdgeLocations, t \in EdgeTypes, s \in EdgeStdevs, b \in EdgeBaselines :
          add_edge(l, t, s, b) /\ UNCHANGED exceptEdges
    \/ free_edges /\ UNCHANGED exceptEdges
    \/ \E e \in OtherErrors :
          /\ estate \in {"none", "live"} /\ errorcode = 0
          /\ fatal(e) /\ UNCHANGED exceptHeap

SpecEdges == Init /\ [][NextEdges]_vars

NextSignal ==
    \/ \E config \in SignalConfigs :
          initialize_signal(config) /\ UNCHANGED exceptSignal
    \/ \E e \in OtherErrors :
          /\ sstate = "none" /\ errorcode = 0
          /\ fatal(e) /\ UNCHANGED exceptHeap

SpecSignal == Init /\ [][NextSignal]_vars

NextFiles ==
    \/ \E datatype \in Datatypes :
       \E bincfg \in IF datatype = BINARY THEN BinaryConfigs ELSE {NoBinaryConfig} :
          initialize_input_files(datatype, bincfg) /\ UNCHANGED exceptFiles
    \/ \E filename \in FileNames, data \in DataFiles \cup {NoData} :
       \E settings \in IF fdatatype = CHIMERA THEN SettingsFiles \cup {NoSettings}
                                              ELSE {NoSettings} :
          /\ add_input_file(filename, settings, data)
          /\ UNCHANGED exceptFiles
    \/ free_input_files /\ UNCHANGED exceptFiles
    \/ \E e \in OtherErrors :
          /\ fstate \in {"none", "live"} /\ errorcode = 0
          /\ fatal(e) /\ UNCHANGED exceptHeap

SpecFiles == Init /\ [][NextFiles]_vars

\* a caller that uses the checked layer directly, with errors raised by
\* other components in between
NextChecked ==
    \/ \E num \in CallocNums : calloc_and_check_call(num) /\ UNCHANGED exceptCalls
    \/ \E exists \in BOOLEAN :
          fopen64_and_check_call(exists) /\ UNCHANGED exceptCalls
    \/ \E e \in ErrorCodes :
          /\ Len(calls) < MaxCalls
          /\ fatal(e) /\ UNCHANGED exceptHeap

SpecChecked == Init /\ [][NextChecked]_vars

NextEvents ==
    \/ initialize_events /\ UNCHANGED exceptEvents
    \/ \E start \in EventStarts, finish \in EventFinishes, index \in EventIndices,
          s \in EventStdevs, b \in EventBaselines :
          add_event(start, finish, index, s, b) /\ UNCHANGED exceptEvents
    \/ \E S \in SUBSET Range(OwnedFields), n \in 1..MaxSub :
          populate_event(S, n) /\ UNCHANGED exceptEvents
    \/ free_single_event /\ UNCHANGED exceptEvents
    \/ \E e \in OtherErrors :
          /\ evstate = "none" /\ errorcode = 0
          /\ fatal(e) /\ UNCHANGED exceptHeap

SpecEvents == Init /\ [][NextEvents]_vars

NextDurations ==
    \/ initialize_durations /\ UNCHANGED exceptDurations
    \/ \E d \in DurationValues : add_duration(d) /\ UNCHANGED exceptDurations
    \/ free_durations /\ UNCHANGED exceptDurations
    \/ \E e \in OtherErrors :
          /\ dstate \in {"none", "live"} /\ errorcode = 0
          /\ fatal(e) /\ UNCHANGED exceptHeap

SpecDurations == Init /\ [][NextDurations]_vars

NextBaseline ==
    \/ \E config \in BaselineConfigs :
          initialize_baseline(config) /\ UNCHANGED exceptBaseline
    \/ free_baseline /\ UNCHANGED exceptBaseline
    \/ \E e \in OtherErrors :
          /\ bstate = "none" /\ errorcode = 0
          /\ fatal(e) /\ UNCHANGED exceptHeap

SpecBaseline == Init /\ [][NextBaseline]_vars

NextLevels ==
    \/ initialize_levels /\ UNCHANGED exceptLevels
    \/ \E c \in LevelCurrents, l \in LevelLengths :
          add_cusum_level(c, l) /\ UNCHANGED exceptLevels
    \/ free_levels /\ UNCHANGED exceptLevels
    \/ \E e \in OtherErrors :
          /\ lstate \in {"none", "live"} /\ errorcode = 0
          /\ fatal(e) /\ UNCHANGED exceptHeap

SpecLevels == Init /\ [][NextLevels]_vars

\* every operation of the module, one group of operations per run, with
\* fatal callable at any time
EdgesIdle == estate = "none"
SignalIdle == sstate = "none"
FilesIdle == fstate = "none"
CallsIdle == calls = <<>>
EventsIdle == evstate = "none"
DurationsIdle == dstate = "none"
BaselineIdle == bstate = "none"
LevelsIdle == lstate = "none"

NextAll ==
    \/ /\ SignalIdle /\ FilesIdle /\ CallsIdle /\ EventsIdle
       /\ DurationsIdle /\ BaselineIdle /\ LevelsIdle
       /\ NextEdges
    \/ /\ EdgesIdle /\ FilesIdle /\ CallsIdle /\ EventsIdle
       /\ DurationsIdle /\ BaselineIdle /\ LevelsIdle
       /\ NextSignal
    \/ /\ EdgesIdle /\ SignalIdle /\ CallsIdle /\ EventsIdle
       /\ DurationsIdle /\ BaselineIdle /\ LevelsIdle
       /\ NextFiles
    \/ /\ EdgesIdle /\ SignalIdle /\ FilesIdle /\ EventsIdle
       /\ DurationsIdle /\ BaselineIdle /\ LevelsIdle
       /\ NextChecked
    \/ /\ EdgesIdle /\ SignalIdle /\ FilesIdle /\ CallsIdle
       /\ DurationsIdle /\ BaselineIdle /\ LevelsIdle
       /\ NextEvents
    \/ /\ EdgesIdle /\ SignalIdle /\ FilesIdle /\ CallsIdle
       /\ EventsIdle /\ BaselineIdle /\ LevelsIdle
       /\ NextDurations
    \/ /\ EdgesIdle /\ SignalIdle /\ FilesIdle /\ CallsIdle
       /\ EventsIdle /\ DurationsIdle /\ LevelsIdle
       /\ NextBaseline
    \/ /\ EdgesIdle /\ SignalIdle /\ FilesIdle /\ CallsIdle
       /\ EventsIdle /\ DurationsIdle /\ BaselineIdle
       /\ NextLevels
    \/ \E e \in OtherErrors : fatal(e) /\ UNCHANGED exceptHeap

SpecAll == Init /\ [][NextAll]_vars

\* ======================================================== claims, edge lists

\* C1 (as stated): count_edges(head) is 0 on the list initialize_edges
\* returns and k after k successful chained add_edge calls.
C1_CountEdgesIsAppendCount ==
    estate = "live" => count_edges(ehead) = Len(elog)

\* a step in which add_edge returned a node
AddEdgeReturned == Len(elog') = Len(elog) + 1

\* what C2 says one successful add_edge does
AddEdgeEffect ==
    /\ Len(elog) = 0 =>
          /\ nblocks' = nblocks /\ allocated' = allocated
          /\ ecur' = ehead
    /\ Len(elog) > 0 =>
          /\ nblocks' = nblocks + 1
          /\ allocated' = allocated \cup {nblocks'}
          /\ ecur' = nblocks'
          /\ edge'[ecur].next = ecur'
          /\ edge'[ecur'].next = NULL
    /\ ehead' = ehead
    /\ EdgeFields(ecur)' = elog'[Len(elog')]
    /\ EdgeTraverse(ehead)' = elog'

\* C2 (as stated): the first add_edge fills the head in place and allocates
\* nothing, every later one allocates and links exactly one node after the
\* tail, and the traversal from the head is the appended edges in order.
C2_AppendOrderAnyType == [][AddEdgeReturned => AddEdgeEffect]_vars

NoHeadTypeIn(log) == \A i \in 1..Len(log) : log[i].type # HEAD

\* C2 (amended): the same, as long as no edge appended before the call
\* carries the reserved type HEAD.
C2_AppendOrder ==
    [][(AddEdgeReturned /\ NoHeadTypeIn(elog)) => AddEdgeEffect]_vars

C2_Witness ==
    /\ estate = "live" /\ Len(elog) = 3 /\ NoHeadTypeIn(elog)
    /\ count_edges(ehead) = 3 /\ EdgeTraverse(ehead) = elog
    /\ elog[1] # elog[2]

\* C3: after initialize_edges and k >= 0 chained add_edge calls, free_edges
\* on the head leaves no node allocated and frees each node exactly once.
C3_FreeEdgesReleasesAll ==
    estate = "freed" =>
        /\ allocated = {}
        /\ nblocks >= 1
        /\ \A b \in 1..nblocks : freecount[b] = 1

C3_Witness ==
    estate = "freed" /\ Len(elog) = 3 /\ nblocks = 3 /\ errorcode = 0

\* ================================================ claims, padded signal

\* C4 (as stated): after a successful initialize_signal every index i with
\* -padding <= i < readlength + padding, padding = max(data_order,
\* event_order) + filterpadding, addresses an element of the allocated
\* paddedsignal buffer when used as signal[i].
C4_SignalIndexRangeInBuffer ==
    sstate = "ok" =>
        LET padding == my_max(scfg.data_order, scfg.event_order)
                           + scfg.filterpadding
            view    == sigs[sig].signal
        IN /\ view[1] = sigs[sig].paddedsignal
           /\ view[1] \in allocated
           /\ \A i \in (-padding)..(scfg.readlength + padding - 1) :
                 /\ 0 <= view[2] + i
                 /\ view[2] + i < blocknum[view[1]]

SomeAllocationFailed == \E i \in 1..Len(soks) : ~soks[i]

\* C5: when one of the three allocations of initialize_signal fails, the
\* call returns NULL with errorcode set and every block the same call had
\* allocated is freed (once) before it returns.
C5_InitializeSignalFailureReleases ==
    (sstate = "failed" /\ SomeAllocationFailed) =>
        /\ sig = NULL
        /\ errorcode # 0
        /\ allocated = {}
        /\ \A b \in 1..nblocks : freecount[b] = 1

C5_Witness ==
    /\ sstate = "failed" /\ soks = <<TRUE, TRUE, FALSE>>
    /\ nblocks = 2 /\ allocated = {} /\ errorcode = ERR_MEM

\* =========================================== claims, input file registry

\* C6 (as stated): instrument-native files registered one after another,
\* none of whose settings files has a mytimestamp key, get the timestamps
\* t0 + 1, t0 + 2, ... (t0 = 0) in registration order.
C6_ChimeraTimestampsCountUp ==
    (/\ fstate = "live" /\ fdatatype = CHIMERA
     /\ \A i \in 1..Len(flog) : ~flog[i].haskey)
    => \A n \in 1..Len(flog) :
          /\ flog[n].timestamp = n
          /\ file[flog[n].node].timestamp = n

RECURSIVE SumLengths(_)
SumLengths(log) ==
    IF log = <<>> THEN 0 ELSE Head(log).length + SumLengths(Tail(log))

\* C7 (as stated): after k >= 1 successful chained add_input_file calls the
\* list from the head has exactly k nodes, the i-th holding the i-th
\* registered file, and get_filesize(head) is the sum of the k lengths.
C7_OneNodePerRegistration ==
    (fstate = "live" /\ Len(flog) >= 1) =>
        /\ Len(FileChain(fhead)) = Len(flog)
        /\ \A i \in 1..Len(flog) :
              /\ FileChain(fhead)[i] = flog[i].node
              /\ file[flog[i].node].datafilename = flog[i].name
              /\ file[flog[i].node].length = flog[i].length
        /\ get_filesize(fhead) = SumLengths(flog)

\* len is num / ss in C: the quotient rounded toward zero
IsCQuotient(len, num, ss) ==
    IF num >= 0
    THEN len >= 0 /\ len * ss <= num /\ num < (len + 1) * ss
    ELSE len <= 0 /\ (-len) * ss <= -num /\ -num < (-len + 1) * ss

\* C8: after a successful add_input_file the node's length is
\* (file size - header bytes) / sample size, with sample size 2 and header 0
\* for CHIMERA and data_size * n_arrays, bincfg->header_bytes for BINARY.
C8_LengthIsSizeOverSampleSize ==
    (fstate = "live" /\ Len(flog) >= 1) =>
        LET last == flog[Len(flog)]
            ss   == IF fdatatype = CHIMERA THEN 2
                    ELSE fbincfg.data_size * fbincfg.n_arrays
            hb   == IF fdatatype = CHIMERA THEN 0 ELSE fbincfg.header_bytes
        IN /\ fdatatype \in {CHIMERA, BINARY}
           /\ last.node = fcur
           /\ IsCQuotient(file[fcur].length, last.size - hb, ss)

C8_Witness ==
    /\ fstate = "live" /\ Len(flog) = 2 /\ fdatatype = BINARY
    /\ fbincfg = [n_arrays |-> 1, data_size |-> 2, header_bytes |-> 0]
    /\ flog[2].size = 1000 /\ file[fcur].length = 500

\* C9 (as stated): a failing add_input_file frees only what it allocated in
\* that call; the nodes the caller holds stay allocated, and the later
\* free_input_files on the head frees every block exactly once.
C9_FailureKeepsCallerNodes ==
    /\ fstate = "addfailed" =>
          /\ free_input_files_blocks(fhead) \subseteq allocated
          /\ \A b \in 1..nblocks : b \notin allocated => freecount[b] = 1
    /\ fstate = "freed" =>
          /\ allocated = {}
          /\ \A b \in 1..nblocks : freecount[b] = 1

\* C10 (as stated): whenever add_input_file has returned, every handle it
\* opened is closed, and on success the node's data_file is NULL.
C10_NoHandleLeftOpen ==
    /\ fstate \in {"live", "addfailed"} => openhandles = {}
    /\ (fstate = "live" /\ Len(flog) >= 1) => file[fcur].data_file = NULL

\* ============================================ claims, checked layer, errors

\* C11: once errorcode is non-zero it stays non-zero: no step of any
\* operation (initialize_*, add_*, free_*, calloc_and_check,
\* fopen64_and_check, fatal), succeeding or failing, sets it back to 0.
C11_ErrorcodeNeverCleared == [][errorcode # 0 => errorcode' # 0]_vars

\* an allocation failed, and the list was still released afterwards
C11_Witness ==
    /\ estate = "freed" /\ Len(elog) >= 1 /\ errorcode = ERR_MEM

\* C12: calloc_and_check returns NULL exactly when it sets errorcode to
\* ERR_MEM and fopen64_and_check exactly when it sets it to ERR_FILE; a
\* call that returns a non-null result leaves errorcode as it was.
C12_NullExactlyOnError ==
    \A i \in 1..Len(calls) :
        LET c   == calls[i]
            err == IF c.op = "calloc" THEN ERR_MEM ELSE ERR_FILE
        IN /\ c.ret = NULL => c.after = err
           /\ c.ret # NULL => c.after = c.before
           /\ c.op = "calloc" /\ c.ret # NULL =>
                 c.ret \in 1..nblocks /\ blocknum[c.ret] = c.num
           /\ c.op = "fopen" /\ c.ret # NULL => c.ret \in openhandles

C12_Witness ==
    /\ Len(calls) = 2
    /\ calls[1].op = "fopen" /\ calls[1].ret = NULL
    /\ calls[1].before = 0 /\ calls[1].after = ERR_FILE
    /\ calls[2].op = "calloc" /\ calls[2].ret # NULL
    /\ calls[2].after = ERR_FILE

\* C13 (as stated): calloc_and_check with num = 0 returns a valid
\* zero-length buffer and does not set errorcode, whatever calloc returns
\* for the zero-size request.
C13_ZeroCountSucceeds ==
    \A i \in 1..Len(calls) :
        (calls[i].op = "calloc" /\ calls[i].num = 0) =>
            /\ calls[i].ret # NULL
            /\ calls[i].ret \in allocated
            /\ calls[i].after = calls[i].before

\* ============================================================ claims, events

\* a step in which add_event returned
AddEventReturned == Len(evlog') = Len(evlog) + 1

OtherEventFields ==
    {"area", "fitted_area", "baseline_before", "baseline_after",
     "average_blockage", "max_blockage", "max_length", "min_blockage",
     "min_length", "padding_before", "padding_after", "extra_before",
     "extra_after", "numlevels", "delta", "residual", "maxdeviation"}

\* C14: add_event allocates nothing and returns the node it was given, with
\* index, start, finish, local_stdev, local_baseline set to the arguments,
\* length = finish - start, type, threshold, rc1, rc2, intracrossings 0 and
\* the seven owned-pointer fields NULL; the other fields of the event and
\* errorcode are unchanged.
C14_AddEventFrame ==
    [][AddEventReturned =>
        LET a == evlog'[Len(evlog')]
            e == event'[ev]
        IN /\ nblocks' = nblocks /\ allocated' = allocated
           /\ ev' = ev
           /\ errorcode' = errorcode
           /\ e.index = a.index /\ e.start = a.start /\ e.finish = a.finish
           /\ e.local_stdev = a.local_stdev
           /\ e.local_baseline = a.local_baseline
           /\ e.length = a.finish - a.start
           /\ e.type = 0 /\ e.threshold = 0 /\ e.rc1 = 0 /\ e.rc2 = 0
           /\ e.intracrossings = 0
           /\ \A f \in Range(OwnedFields) : e[f] = NULL
           /\ \A f \in OtherEventFields : e[f] = event[ev][f]
           /\ \A b \in DOMAIN event : b # ev => event'[b] = event[b]]_vars

\* the second add_event was made on a node the detection stage had filled
C14_Witness ==
    /\ evstate = "added" /\ Len(evlog) = 2
    /\ event[ev].area = 7 /\ event[ev].numlevels = 2
    /\ event[ev].length = 3 /\ event[ev].type = 0
    /\ nblocks = 8

RankOf(f) ==
    CASE f = "rawsignal" -> 1
      [] f = "paddedsignal" -> 2
      [] f = "filtered_signal" -> 3
      [] f = "first_edge" -> 4
      [] f = "intra_edges" -> 5
      [] f = "first_level" -> 6
      [] OTHER -> 0

\* C15: free_single_event frees in the order raw, padded, filtered signal
\* buffer, edge list, intra-edge list, level list; a step whose field is
\* NULL frees nothing, so disposing an event with nothing attached frees
\* nothing.
C15_FreeOrder ==
    evstate = "disposed" =>
        /\ \A i, j \in 1..Len(evfreed) :
              i < j => /\ RankOf(kind[evfreed[i]]) >= 1
                       /\ RankOf(kind[evfreed[i]]) <= RankOf(kind[evfreed[j]])
        /\ \A f \in Range(OwnedFields) \ {"signal"} :
              IF evpre[f] = NULL
              THEN \A i \in 1..Len(evfreed) : kind[evfreed[i]] # f
              ELSE \E i \in 1..Len(evfreed) :
                      evfreed[i] = evpre[f] /\ kind[evfreed[i]] = f
        /\ \A b \in 1..nblocks : freecount[b] <= 1

C15_Witness ==
    /\ evstate = "disposed" /\ Len(evfreed) = 9
    /\ \A f \in Range(OwnedFields) \ {"signal"} : evpre[f] # NULL

\* the blocks the event e owns: its four buffers and the nodes of its lists
OwnedBlocks(e) ==
    ({e.rawsignal, e.paddedsignal, e.filtered_signal, e.signal}
     \cup Range(EdgeChain(e.first_edge)) \cup Range(EdgeChain(e.intra_edges))
     \cup Range(LevelChain(e.first_level))) \ {NULL}

\* C16 (as stated): after free_single_event(e) none of the event's four
\* buffers (raw, padded, filtered, signal) and no node of its edge,
\* intra-edge or level list remains allocated.
C16_NothingOwnedRemains ==
    evstate = "disposed" => OwnedBlocks(evpre) \cap allocated = {}

\* ==================================================== claims, duration list

\* C17 (as stated): after k >= 1 successful chained add_duration calls with
\* arbitrary values, 0 and negative ones included, the traversal from the
\* head yields exactly the k appended durations in append order.
C17_AppendOrderAnyValue ==
    (dstate = "live" /\ Len(dlog) >= 1) => DurationTraverse(dhead) = dlog

AllPositive(log) == \A i \in 1..Len(log) : log[i] > 0

\* C17 (amended): the same, for strictly positive durations.
C17_AppendOrderPositive ==
    (dstate = "live" /\ Len(dlog) >= 1 /\ AllPositive(dlog)) =>
        /\ DurationTraverse(dhead) = dlog
        /\ DurationChain(dhead)[Len(dlog)] = dcur

C17_Witness ==
    /\ dstate = "live" /\ dlog = <<1, 2, 1>>
    /\ DurationTraverse(dhead) = <<1, 2, 1>> /\ nblocks = 3

\* ============================================= claims, settings file parsing

\* the value of the last line of lines with the given key, 0 without one
SettingValue(lines, name) ==
    LET at == {i \in 1..Len(lines) : lines[i].name = name}
    IN IF at = {} THEN 0
       ELSE lines[CHOOSE i \in at : \A j \in at : j <= i].value

\* C18 (as stated): after a successful CHIMERA add_input_file each
\* calibration field of the node and its timestamp equals the value of the
\* settings line for its key, whatever the order of the lines, and is 0
\* when the file has no line for the key.
C18_FieldsMirrorSettings ==
    (fstate = "live" /\ fdatatype = CHIMERA /\ Len(flog) >= 1) =>
        LET last  == flog[Len(flog)]
            setup == daq[file[last.node].daqsetup]
        IN /\ last.node = fcur
           /\ setup.TIAgain = SettingValue(fsettings, "SETUP_TIAgain")
           /\ setup.samplerate = SettingValue(fsettings, "ADCSAMPLERATE")
           /\ setup.preADCgain = SettingValue(fsettings, "SETUP_preADCgain")
           /\ setup.currentoffset = SettingValue(fsettings, "SETUP_pAoffset")
           /\ setup.ADCvref = SettingValue(fsettings, "SETUP_ADCVREF")
           /\ setup.ADCbits = SettingValue(fsettings, "SETUP_ADCBITS")
           /\ file[last.node].timestamp = SettingValue(fsettings, "mytimestamp")

\* ================================================ claims, baseline histogram

\* C19 (as stated): initialize_baseline sets numbins to
\* floor(2 * readlength^(1/3)), delta to (baseline_max - baseline_min) /
\* numbins and current[i] to baseline_min + i * delta; for baseline_max >
\* baseline_min the centers increase strictly from baseline_min to
\* baseline_max - delta.
C19_BinGeometry ==
    bstate = "ok" =>
        LET b == base[bptr]
            c == centers[b.current]
            n == FloorTwiceCubeRoot(bcfg.readlength)
            range == bcfg.baseline_max - bcfg.baseline_min
        IN /\ b.numbins = n
           /\ bcfg.readlength = 8000 => b.numbins = 40
           /\ b.delta = Quotient(range, n)
           /\ Len(c) = n
           /\ \A i \in 0..(n - 1) :
                 c[i + 1] = Quotient(bcfg.baseline_min * n + i * range, n)
           /\ (range > 0 /\ n > 0) =>
                 /\ \A i \in 1..(n - 1) : c[i][1] < c[i + 1][1]
                 /\ c[1][1] = bcfg.baseline_min * n
                 /\ c[n][1] = bcfg.baseline_max * n - range

\* ===================================== claims, use of the checked results

\* C21 (as stated): every operation tests errorcode before it uses the
\* result of calloc_and_check or fopen64_and_check; when the allocation
\* fails the operation returns NULL and never reads or writes through the
\* null result (here: initialize_levels, add_cusum_level).
C21_ResultCheckedBeforeUse == ~lnull /\ lstate # "crashed"

\* C22 (as stated): whenever an initialize_* function returns NULL, no
\* block allocated during that call remains allocated, whatever errorcode
\* was on entry.
C22_FailedInitializeLeavesNothing ==
    (\/ estate = "initfailed" \/ sstate = "failed" \/ fstate = "initfailed"
     \/ evstate = "initfailed" \/ dstate = "initfailed" \/ bstate = "failed")
    => allocated = {}

\* ======================================================= claims, level list

\* C23 (as stated): after k >= 1 add_cusum_level calls chained on the node
\* initialize_levels returned, with arbitrary (current, length) values,
\* length = 0 included, the traversal from the head yields exactly the k
\* appended levels in append order.
C23_AppendOrderAnyLength ==
    (lstate = "live" /\ Len(llog) >= 1) => LevelTraverse(lhead) = llog

PositiveLengths(log) == \A i \in 1..Len(log) : log[i].length > 0

\* C23 (amended): the same, for levels of length > 0: the first call fills
\* the sentinel in place and every later call adds one node at the tail.
C23_AppendOrderPositiveLength ==
    (lstate = "live" /\ Len(llog) >= 1 /\ PositiveLengths(llog)) =>
        /\ LevelTraverse(lhead) = llog
        /\ LevelChain(lhead)[1] = lhead
        /\ LevelChain(lhead)[Len(llog)] = lcur
        /\ Cardinality(Range(LevelChain(lhead))) = Len(llog)
        /\ nblocks >= Len(llog)

C23_Witness ==
    /\ lstate = "live" /\ Len(llog) = 3 /\ PositiveLengths(llog)
    /\ llog[1] # llog[2] /\ nblocks = 3 /\ errorcode = 0
    /\ LevelTraverse(lhead) = llog

\* =============================================== claims, event disposal

\* a step of free_single_event
FreeSingleEventStep == evstate' = "disposed"

\* C24: free_single_event leaves the six pointer fields it released NULL,
\* so a second call on the same event frees nothing, and no block or list
\* node is ever freed twice.
C24_FreeSingleEventIdempotent ==
    [][FreeSingleEventStep =>
        /\ \A f \in Range(OwnedFields) \ {"signal"} : event'[ev][f] = NULL
        /\ evstate = "disposed" =>
              /\ evfreed' = <<>>
              /\ allocated' = allocated /\ freecount' = freecount
              /\ event' = event
        /\ \A b \in 1..nblocks : freecount'[b] <= 1]_vars

\* an event with everything attached was disposed twice
C24_Witness ==
    /\ evstate = "disposed" /\ evfreed = <<>>
    /\ \A f \in Range(OwnedFields) : evpre[f] = NULL \/ f = "signal"
    /\ Cardinality({b \in 1..nblocks : freecount[b] = 1}) = 9

\* C25 (as stated): every buffer and list node the event has owned stays
\* reachable from the event as long as it is allocated, also across an
\* add_event on a node that still owns buffers or sublists.
C25_OwnedStaysReachable ==
    \A b \in DOMAIN kind : b \in allocated => b \in OwnedBlocks(event[ev])

====
